---- MODULE Spec2Model ----
(***************************************************************************)
(* Model of the generation queue (GenerationQueue, services/               *)
(* generationQueue.js) and of the model orchestrator (ModelOrchestrator,   *)
(* services/modelOrchestrator.js) of Neurocanvas.                          *)
(*                                                                         *)
(* The queue runs on the single-threaded Node.js event loop: a handler     *)
(* runs without interruption up to its next await.  Every action below is  *)
(* one such uninterrupted segment.  processQueue suspends at               *)
(*   - the await of a backend call inside generateWithModels  (pc backend) *)
(*   - the await of the promise of generateWithModels       (pc generated) *)
(*   - the await of the promise of rankResults                 (pc ranked) *)
(* Job objects live on the heap (jobs); the pending list, the current job  *)
(* and the completed cache hold references (job ids) to them.              *)
(***************************************************************************)
EXTENDS Integers, Sequences, FiniteSets, TLC

\* ---------------------------------------------------------------- bounds
\* number of addJob calls in a run
MaxJobs == 3
\* longest list of backend names handed to generateWithModels in SpecOrch
MaxModels == 3
\* most feedback submissions counted per backend in modelStats
MaxRuns == 2
\* feedback requests (updatePreferences calls) in one run
MaxCalls == 3
\* generation requests (POST /api/generate) in one run
MaxSubmits == 2

\* ------------------------------------------------------ program constants
\* this.maxCompletedJobs
maxCompletedJobs == 100

\* number of finished jobs in the completed cache in InitWarm: the cache is
\* full, as it is once the server has finished maxCompletedJobs jobs
Preloaded == maxCompletedJobs

\* ------------------------------------------------------------ input sets
\* priorities handed to addJob
Priorities == {5, 10}
\* the models and params arguments handed to addJob.  models is an array of
\* backend names, or (isArray FALSE) a value without a join method, such as
\* the string the route passes on unchecked; baseImage tells whether
\* params.baseImage is set
JobArgs ==
  { [models |-> [isArray |-> TRUE, items |-> <<"diffusion">>],
     baseImage |-> FALSE],
    [models |-> [isArray |-> FALSE, items |-> <<>>],
     baseImage |-> FALSE] }
\* generation times (ms) a backend call of a queued job can take
GenTimes == {30000}
\* generation times of the ranked results, in ms: under and over the minute
\* the speed bonus runs out at
RankTimes == {30000, 70000}
\* star ratings a feedback submission carries (Generation schema: 1 to 5)
Ratings == {1, 5}

\* ids of the jobs added during a run; ids are opaque (uuid v4) and unique
NewIds == (Preloaded + 1) .. (Preloaded + MaxJobs)
\* ids handed to cancelJob / getJobStatus / getJobResult
LookupIds == {1} \cup NewIds

NoJob == 0
NoTime == -1
NoError == "none"
NoUrl == "none"

VARIABLES
  queue,          \* this.queue: pending job ids, head first
  processing,     \* this.processing
  currentJob,     \* this.currentJob (NoJob for null)
  completedJobs,  \* this.completedJobs: job ids in Map insertion order
  jobs,           \* heap: job id -> job object
  nextId,         \* next id uuidv4 hands out
  clock,          \* value of new Date()
  pc,             \* where processQueue is suspended
  modelIdx,       \* generateWithModels: index of the backend being awaited
  results,        \* generateWithModels: results pushed so far
  settled,        \* value/rejection of the promise processQueue awaits
  modelStats,     \* ModelOrchestrator this.modelStats
  store,          \* UserPreference documents of the user in the database
  calls,          \* MABService.updatePreferences calls: position and document
  ret,            \* what the last service call to return has returned
  listening,      \* whether the generation router's listeners are registered
  generations,    \* Generation documents in the database, by job
  tasks           \* router callbacks suspended at an await on the database

\* the state of the services besides the queue
mabVars == <<store, calls, ret>>
svcVars == <<modelStats, mabVars>>
queueVars == <<queue, processing, currentJob, completedJobs, jobs, nextId,
               clock, pc, modelIdx, results, settled>>

\* the state of the generation router
mirrorVars == <<listening, generations, tasks>>

vars == <<queue, processing, currentJob, completedJobs, jobs, nextId, clock,
          pc, modelIdx, results, settled, svcVars, mirrorVars>>

NoSettled == [threw |-> FALSE, error |-> NoError, value |-> <<>>]

\* ------------------------------------------------------------- sequences
InsertAt(s, i, e) == SubSeq(s, 1, i - 1) \o <<e>> \o SubSeq(s, i, Len(s))
RemoveAt(s, i) == SubSeq(s, 1, i - 1) \o SubSeq(s, i + 1, Len(s))
Range(s) == {s[i] : i \in 1..Len(s)}
\* Array.prototype.findIndex, 1-based; 0 when no element matches
FindIndex(s, id) ==
  LET hits == {i \in 1..Len(s) : s[i] = id}
  IN IF hits = {} THEN 0 ELSE CHOOSE i \in hits : \A j \in hits : i <= j


\* ------------------------------------------------------ ModelOrchestrator
KnownBackends == {"style-transfer", "diffusion"}

\* a result entry pushed by generateWithModels
OkEntry(m, url, t) ==
  [model |-> m, imageUrl |-> url, error |-> NoError, score |-> 0, time |-> t]
ErrEntry(m, msg) ==
  [model |-> m, imageUrl |-> NoUrl, error |-> msg, score |-> 0, time |-> 0]

\* how the awaited _executeStyleTransfer / _executeDiffusion call can settle
BackendOutcomesIn(m, baseImage, times) ==
  IF m = "style-transfer" /\ ~baseImage
    THEN {[ok |-> FALSE, imageUrl |-> NoUrl, time |-> 0,
           error |-> "Style transfer requires a base image"]}
    ELSE {[ok |-> TRUE, imageUrl |-> "url", time |-> t, error |-> NoError] :
             t \in times}
         \cup {[ok |-> TRUE, imageUrl |-> NoUrl, time |-> 0, error |-> NoError],
               [ok |-> FALSE, imageUrl |-> NoUrl, time |-> 0,
                error |-> "backend failed"]}

BackendOutcomes(m, baseImage) == BackendOutcomesIn(m, baseImage, GenTimes)

\* the entry generateWithModels pushes for backend m once its call settled
EntryOf(m, o) ==
  IF o.ok THEN OkEntry(m, o.imageUrl, o.time) ELSE ErrEntry(m, o.error)

\* RunModels with a catch block that leaves the loop after pushing the entry
RECURSIVE RunModelsAbortOnError(_, _, _)
RunModelsAbortOnError(items, idx, res) ==
  IF idx > Len(items) \/ (Len(res) > 0 /\ res[Len(res)].error # NoError)
    THEN [pc |-> "generated", modelIdx |-> 0, results |-> <<>>,
          settled |-> [threw |-> FALSE, error |-> NoError, value |-> res]]
  ELSE IF items[idx] \in KnownBackends
    THEN [pc |-> "backend", modelIdx |-> idx, results |-> res,
          settled |-> NoSettled]
  ELSE RunModelsAbortOnError(items, idx + 1,
                 Append(res, ErrEntry(items[idx], "Unknown model")))

\* generateWithModels, the for loop from index idx on, up to the next await:
\* an unknown name throws and is caught inside the loop without suspending;
\* a known backend is called and awaited; past the last name the function
\* returns and its promise resolves with the results
RECURSIVE RunModels(_, _, _)
RunModels(items, idx, res) ==
  IF idx > Len(items)
    THEN [pc |-> "generated", modelIdx |-> 0, results |-> <<>>,
          settled |-> [threw |-> FALSE, error |-> NoError, value |-> res]]
  ELSE IF items[idx] \in KnownBackends
    THEN [pc |-> "backend", modelIdx |-> idx, results |-> res,
          settled |-> NoSettled]
  ELSE RunModels(items, idx + 1,
                 Append(res, ErrEntry(items[idx], "Unknown model")))

\* generateWithModels from its call up to its first await; models.join
\* throws for a models value that is not an array
generateWithModels(models) ==
  IF ~models.isArray
    THEN [pc |-> "generated", modelIdx |-> 0, results |-> <<>>,
          settled |-> [threw |-> TRUE, value |-> <<>>,
                       error |-> "models.join is not a function"]]
    ELSE RunModels(models.items, 1, <<>>)

\* global per-backend statistics (this.modelStats), avgScore in 1/1000
InitialModelStats == [m \in KnownBackends |-> [totalRuns |-> 0, avgScore |-> 0]]

\* the score rankResults gives a valid entry, in 1/1000
ScoreOf(e, stats) ==
  LET speed == IF e.time > 0
                 THEN (IF 60000 - e.time > 0
                         THEN ((60000 - e.time) * 200) \div 60000 ELSE 0)
                 ELSE 0
      hist  == IF e.model \in DOMAIN stats /\ stats[e.model].avgScore > 0
                 THEN (stats[e.model].avgScore * 3) \div 10 ELSE 0
      score == 500 + speed + hist
  IN IF score < 1000 THEN score ELSE 1000

\* Array.prototype.sort((a, b) => b.score - a.score): stable, descending
RECURSIVE SortByScore(_)
SortByScore(s) ==
  IF Len(s) <= 1 THEN s
  ELSE LET rest == SortByScore(Tail(s))
           e    == Head(s)
           k    == Cardinality({i \in 1..Len(rest) : rest[i].score > e.score})
       IN InsertAt(rest, k + 1, e)

IsValid(e) == e.error = NoError /\ e.imageUrl # NoUrl

\* rankResults without the sort
rankResultsUnsorted(res, stats) ==
  LET validResults == SelectSeq(res, IsValid)
  IN IF Len(validResults) = 0 THEN res
     ELSE [i \in 1..Len(validResults) |->
            [validResults[i] EXCEPT !.score = ScoreOf(validResults[i], stats)]]

rankResults(res, stats) ==
  LET validResults == SelectSeq(res, IsValid)
  IN IF Len(validResults) = 0 THEN res
     ELSE SortByScore([i \in 1..Len(validResults) |->
            [validResults[i] EXCEPT !.score = ScoreOf(validResults[i], stats)]])


\* updateModelStats(model, performance): the running average of the scores,
\* in 1/1000 (avgTime is kept by the code and read by nothing modelled here)
updateModelStats(stats, model, score) ==
  LET st  == IF model \in DOMAIN stats THEN stats[model]
             ELSE [totalRuns |-> 0, avgScore |-> 0]
      n   == st.totalRuns
      new == [totalRuns |-> n + 1,
              avgScore |-> (st.avgScore * n + score) \div (n + 1)]
  IN [m \in DOMAIN stats \cup {model} |-> IF m = model THEN new ELSE stats[m]]

\* generation.models.forEach(model => updateModelStats(model, ...))
RECURSIVE UpdateAll(_, _, _)
UpdateAll(stats, items, score) ==
  IF Len(items) = 0 THEN stats
  ELSE UpdateAll(updateModelStats(stats, Head(items), score), Tail(items),
                 score)

\* ------------------------------------------------- UserPreference document
\* Rewards and scores are exact fractions of 1/10: a score is a reduced
\* fraction [num, den] with den > 0.  Epsilon is in 1/100000.
\* modelPreferences of the schema, in the order Object.entries visits them
Arms == <<"style-transfer", "diffusion">>
ArmSet == Range(Arms)

\* epsilon: default 0.2, decay floor 0.05 (the schema's min), schema max 1.0
initialEpsilon == 20000
minEpsilon == 5000
maxEpsilon == 100000
\* exp(-decayRate) for decayRate = 0.02, in 1/10000
decayFactor == 9802

Abs(x) == IF x < 0 THEN -x ELSE x
Max(a, b) == IF a >= b THEN a ELSE b
Min(a, b) == IF a <= b THEN a ELSE b

RECURSIVE GCD(_, _)
GCD(a, b) == IF b = 0 THEN a ELSE GCD(b, a % b)

Frac(n, d) ==
  LET g == GCD(Abs(n), d) IN [num |-> n \div g, den |-> d \div g]

ZeroScore == [num |-> 0, den |-> 1]

\* new UserPreference({ userId }): the schema defaults
NewPreference ==
  [modelPreferences |->
     [a \in ArmSet |-> [score |-> ZeroScore, pulls |-> 0, wins |-> 0,
                        losses |-> 0]],
   epsilon |-> initialEpsilon,
   totalGenerations |-> 0,
   totalFeedback |-> 0]

\* exp(-0.02 * g) in 1/10000, by repeated squaring, rounded to the nearest
RECURSIVE DecayPower(_)
DecayPower(g) ==
  IF g = 0 THEN 10000
  ELSE LET half   == DecayPower(g \div 2)
           square == (half * half + 5000) \div 10000
       IN IF g % 2 = 0 THEN square
          ELSE (square * decayFactor + 5000) \div 10000

\* 0.2 * exp(-0.02 * g)
Decayed(g) == (initialEpsilon * DecayPower(g) + 5000) \div 10000

\* decayEpsilon with the floor left out
decayEpsilonNoFloor(doc) ==
  [doc EXCEPT !.epsilon = Decayed(doc.totalGenerations)]

\* methods.decayEpsilon
decayEpsilon(doc) ==
  [doc EXCEPT !.epsilon = Max(minEpsilon, Decayed(doc.totalGenerations))]

\* MeanStep giving the new reward the weight of all earlier ones
MeanStepHalved(score, n, reward) ==
  Frac(score.num + reward * score.den, 2 * score.den)

\* the running mean ((n - 1) * score + reward) / n
MeanStep(score, n, reward) ==
  Frac((n - 1) * score.num + reward * score.den, n * score.den)

\* updatePreferences counting a reward of 0 as a loss
updatePreferencesZeroLoses(doc, model, reward) ==
  LET counted ==
        IF model \in DOMAIN doc.modelPreferences
          THEN LET old == doc.modelPreferences[model]
                   n   == old.pulls + 1
               IN [doc EXCEPT !.modelPreferences[model] =
                     [pulls  |-> n,
                      wins   |-> IF reward > 0 THEN old.wins + 1
                                 ELSE old.wins,
                      losses |-> IF reward > 0 THEN old.losses
                                 ELSE old.losses + 1,
                      score  |-> MeanStep(old.score, n, reward)]]
          ELSE doc
  IN decayEpsilon([counted EXCEPT !.totalFeedback = @ + 1])

\* the reward (stars - 3) / 2 of a rating that is no number: NaN stands apart
\* from every reward in 1/10, every comparison with it is false and every sum
\* with it is NaN again
NaN == 1000000
NaNScore == [num |-> 0, den |-> 0]

\* updatePreferences returning at once for a model that is no arm
updatePreferencesSkipsUnknown(doc, model, reward) ==
  IF model \in DOMAIN doc.modelPreferences
    THEN LET old == doc.modelPreferences[model]
             n   == old.pulls + 1
             counted ==
               [doc EXCEPT !.modelPreferences[model] =
                  [pulls  |-> n,
                   wins   |-> IF reward > 0 THEN old.wins + 1 ELSE old.wins,
                   losses |-> IF reward < 0 THEN old.losses + 1
                              ELSE old.losses,
                   score  |-> MeanStep(old.score, n, reward)]]
         IN decayEpsilon([counted EXCEPT !.totalFeedback = @ + 1])
    ELSE doc

\* methods.updatePreferences(model, reward, metadata); the style, colour and
\* mood tallies of the document are left out of the model
updatePreferences(doc, model, reward) ==
  LET counted ==
        IF model \in DOMAIN doc.modelPreferences
          THEN LET old == doc.modelPreferences[model]
                   n   == old.pulls + 1
               IN [doc EXCEPT !.modelPreferences[model] =
                     [pulls  |-> n,
                      wins   |-> IF reward # NaN /\ reward > 0
                                   THEN old.wins + 1
                                 ELSE old.wins,
                      losses |-> IF reward # NaN /\ reward > 0 THEN old.losses
                                 ELSE IF reward # NaN /\ reward < 0
                                   THEN old.losses + 1
                                 ELSE old.losses,
                      score  |-> IF reward = NaN THEN NaNScore
                                 ELSE MeanStep(old.score, n, reward)]]
          ELSE doc
  IN decayEpsilon([counted EXCEPT !.totalFeedback = @ + 1])

\* getBestModel's loop over Object.entries from arm i on; best.pulled tells
\* whether bestScore is still -Infinity
RECURSIVE BestFrom(_, _, _)
BestFrom(doc, i, best) ==
  IF i > Len(Arms) THEN best
  ELSE LET stats == doc.modelPreferences[Arms[i]]
           better == \/ ~best.pulled
                     \/ stats.score.num * best.score.den
                          > best.score.num * stats.score.den
       IN BestFrom(doc, i + 1,
                   IF stats.pulls > 0 /\ better
                     THEN [model |-> Arms[i], pulled |-> TRUE,
                           score |-> stats.score]
                     ELSE best)

\* getBestModel taking the last of several arms with the best score
RECURSIVE BestFromLast(_, _, _)
BestFromLast(doc, i, best) ==
  IF i > Len(Arms) THEN best
  ELSE LET stats == doc.modelPreferences[Arms[i]]
           better == \/ ~best.pulled
                     \/ stats.score.num * best.score.den
                          >= best.score.num * stats.score.den
       IN BestFromLast(doc, i + 1,
                       IF stats.pulls > 0 /\ better
                         THEN [model |-> Arms[i], pulled |-> TRUE,
                               score |-> stats.score]
                         ELSE best)

getBestModelLastWins(doc) ==
  BestFromLast(doc, 1,
               [model |-> "diffusion", pulled |-> FALSE, score |-> ZeroScore])

\* methods.getBestModel
getBestModel(doc) ==
  BestFrom(doc, 1,
           [model |-> "diffusion", pulled |-> FALSE, score |-> ZeroScore])

\* -------------------------------------------------------- GenerationQueue
Terminal == {"completed", "failed", "cancelled"}

\* the job object addJob builds; events is the list of the events emitted
\* with this job so far, jobAdded being emitted before addJob returns
NewJob(priority, models, baseImage) ==
  [status |-> "pending", priority |-> priority, models |-> models,
   baseImage |-> baseImage, progress |-> 0, completedAt |-> NoTime,
   result |-> <<>>, error |-> NoError, events |-> <<"jobAdded">>]

\* StartEvents with the two emits in the other order
StartEventsProgressFirst == <<"jobProgress", "jobStarted">>

\* the events processQueue emits for a job between shifting it off the
\* pending list and awaiting generateWithModels
StartEvents == <<"jobStarted", "jobProgress">>

\* InsertPos with the scan's test written <= instead of <
InsertPosLte(q, js, priority) ==
  IF \E i \in 1..Len(q) : js[q[i]].priority <= priority
    THEN CHOOSE i \in 1..Len(q) :
           /\ js[q[i]].priority <= priority
           /\ \A j \in 1..(i - 1) : ~(js[q[j]].priority <= priority)
    ELSE Len(q) + 1

\* addJob's insertion scan: before the first entry of strictly lower
\* priority, at the end when there is none
InsertPos(q, js, priority) ==
  IF \E i \in 1..Len(q) : js[q[i]].priority < priority
    THEN CHOOSE i \in 1..Len(q) :
           /\ js[q[i]].priority < priority
           /\ \A j \in 1..(i - 1) : ~(js[q[j]].priority < priority)
    ELSE Len(q) + 1

\* FirstSorted with the comparator reversed (b - a): the latest completedAt
FirstSortedDescending(s, js) ==
  CHOOSE j \in 1..Len(s) :
    \A i \in 1..Len(s) :
      /\ js[s[j]].completedAt >= js[s[i]].completedAt
      /\ (js[s[i]].completedAt = js[s[j]].completedAt => j <= i)

\* the entry that Array.prototype.sort((a, b) => a[1].completedAt -
\* b[1].completedAt) puts first: the sort is stable and ascending, so it is the
\* entry of least completedAt, and among those the first in Map order
FirstSorted(s, js) ==
  CHOOSE j \in 1..Len(s) :
    \A i \in 1..Len(s) :
      /\ js[s[j]].completedAt <= js[s[i]].completedAt
      /\ (js[s[i]].completedAt = js[s[j]].completedAt => j <= i)

\* jobs.sort(...).slice(0, k): the first k entries of the sorted cache
RECURSIVE SortedSlice(_, _, _)
SortedSlice(s, js, k) ==
  IF k <= 0 \/ Len(s) = 0 THEN <<>>
  ELSE LET j == FirstSorted(s, js)
       IN <<s[j]>> \o SortedSlice(RemoveAt(s, j), js, k - 1)

\* _cleanupCompletedJobs: when the cache is over capacity, sort its entries
\* by completedAt and delete the first size - maxCompletedJobs of them
CleanupCompletedJobs(cache, js) ==
  IF Len(cache) > maxCompletedJobs
    THEN LET toRemove ==
               Range(SortedSlice(cache, js, Len(cache) - maxCompletedJobs))
             keep(id) == id \notin toRemove
         IN SelectSeq(cache, keep)
    ELSE cache

\* this.completedJobs.set(job.id, job) followed by _cleanupCompletedJobs()
StoreCompleted(cache, js, id) ==
  CleanupCompletedJobs(IF id \in Range(cache) THEN cache ELSE Append(cache, id),
                       js)

\* the events the router listens to
Handled == {"jobProgress", "jobCompleted", "jobFailed"}

\* the events emitted in this step: job id and position in its list
Emitted ==
  UNION {{<<id, n>> :
            n \in ((IF id \in DOMAIN jobs THEN Len(jobs[id].events) ELSE 0) + 1)
                    ..Len(jobs'[id].events)} : id \in DOMAIN jobs'}

\* emit calls each listener and returns when the listener does: the router's
\* listeners are async functions that return at their first await, the
\* findOne that looks up the job's Generation document
Spawned ==
  {[kind |-> jobs'[e[1]].events[e[2]], id |-> e[1], n |-> e[2],
    pc |-> "finding", status |-> "none"] :
     e \in {x \in Emitted : jobs'[x[1]].events[x[2]] \in Handled}}

\* the router's part of a step of the queue
Deliver ==
  /\ tasks' = IF listening THEN tasks \cup Spawned ELSE tasks
  /\ UNCHANGED <<listening, generations>>

\* ProcessLoop without the assignment this.processing = false after the loop
ProcessLoopFlagStuck(q, js) ==
  IF Len(q) = 0
    THEN [queue |-> q, jobs |-> js, currentJob |-> NoJob,
          processing |-> TRUE, pc |-> "idle", modelIdx |-> 0,
          results |-> <<>>, settled |-> NoSettled]
    ELSE LET id  == Head(q)
             js2 == [js EXCEPT ![id].status = "processing",
                               ![id].progress = 10,
                               ![id].events = @ \o StartEvents]
             g   == generateWithModels(js2[id].models)
         IN [queue |-> Tail(q), jobs |-> js2, currentJob |-> id,
             processing |-> TRUE, pc |-> g.pc, modelIdx |-> g.modelIdx,
             results |-> g.results, settled |-> g.settled]

\* ProcessLoop without the assignment this.processing = true
ProcessLoopFlagUnset(q, js) ==
  IF Len(q) = 0
    THEN [queue |-> q, jobs |-> js, currentJob |-> NoJob,
          processing |-> FALSE, pc |-> "idle", modelIdx |-> 0,
          results |-> <<>>, settled |-> NoSettled]
    ELSE LET id  == Head(q)
             js2 == [js EXCEPT ![id].status = "processing",
                               ![id].progress = 10,
                               ![id].events = @ \o StartEvents]
             g   == generateWithModels(js2[id].models)
         IN [queue |-> Tail(q), jobs |-> js2, currentJob |-> id,
             processing |-> FALSE, pc |-> g.pc, modelIdx |-> g.modelIdx,
             results |-> g.results, settled |-> g.settled]

\* processQueue from the while test up to its next await: with the pending
\* list empty the loop ends and processing is cleared; otherwise the head is
\* shifted, made the current job, marked processing and generateWithModels is
\* called and awaited
ProcessLoop(q, js) ==
  IF Len(q) = 0
    THEN [queue |-> q, jobs |-> js, currentJob |-> NoJob,
          processing |-> FALSE, pc |-> "idle", modelIdx |-> 0,
          results |-> <<>>, settled |-> NoSettled]
    ELSE LET id  == Head(q)
             js2 == [js EXCEPT ![id].status = "processing",
                               ![id].progress = 10,
                               ![id].events = @ \o StartEvents]
             g   == generateWithModels(js2[id].models)
         IN [queue |-> Tail(q), jobs |-> js2, currentJob |-> id,
             processing |-> TRUE, pc |-> g.pc, modelIdx |-> g.modelIdx,
             results |-> g.results, settled |-> g.settled]

\* the worker part of the state as a record
Worker ==
  [queue |-> queue, jobs |-> jobs, currentJob |-> currentJob,
   processing |-> processing, pc |-> pc, modelIdx |-> modelIdx,
   results |-> results, settled |-> settled]

\* processQueue as called from addJob: returns at once when the loop is
\* already running or nothing is pending
processQueue(w) ==
  IF w.processing \/ Len(w.queue) = 0 THEN w ELSE ProcessLoop(w.queue, w.jobs)

SetWorker(w) ==
  /\ queue' = w.queue
  /\ jobs' = w.jobs
  /\ currentJob' = w.currentJob
  /\ processing' = w.processing
  /\ pc' = w.pc
  /\ modelIdx' = w.modelIdx
  /\ results' = w.results
  /\ settled' = w.settled

\* AddJob without the call of processQueue
AddJobNoStart(priority, models, baseImage) ==
  /\ nextId \in NewIds
  /\ LET id == nextId
         js == [i \in DOMAIN jobs \cup {id} |->
                  IF i = id THEN NewJob(priority, models, baseImage)
                            ELSE jobs[i]]
         q  == InsertAt(queue, InsertPos(queue, js, priority), id)
     IN SetWorker([Worker EXCEPT !.queue = q, !.jobs = js])
  /\ nextId' = nextId + 1
  /\ Deliver
  /\ UNCHANGED <<completedJobs, clock, svcVars>>

\* addJob(userId, prompt, models, priority, params): what it does to the queue
addJob(priority, models, baseImage) ==
  /\ nextId \in NewIds
  /\ LET id == nextId
         js == [i \in DOMAIN jobs \cup {id} |->
                  IF i = id THEN NewJob(priority, models, baseImage)
                            ELSE jobs[i]]
         q  == InsertAt(queue, InsertPos(queue, js, priority), id)
         w  == [Worker EXCEPT !.queue = q, !.jobs = js]
     IN SetWorker(IF ~processing THEN processQueue(w) ELSE w)
  /\ nextId' = nextId + 1
  /\ UNCHANGED <<completedJobs, clock>>

\* addJob called on the queue directly
AddJob(priority, models, baseImage) ==
  /\ addJob(priority, models, baseImage)
  /\ Deliver
  /\ UNCHANGED svcVars

\* what cancelJob(jobId) returns
cancelJobReturns(id) ==
  IF currentJob # NoJob /\ currentJob = id THEN FALSE
  ELSE IF FindIndex(queue, id) # 0 THEN TRUE
  ELSE FALSE

\* CancelJob without the completedJobs.set that stores the cancelled job
CancelJobNotStored(id, dt) ==
  LET queueIndex == FindIndex(queue, id)
  IN IF currentJob # NoJob /\ currentJob = id
       THEN UNCHANGED vars
     ELSE IF queueIndex # 0
       THEN LET js == [jobs EXCEPT ![id].status = "cancelled",
                                   ![id].completedAt = clock + dt,
                                   ![id].events = Append(@, "jobCancelled")]
            IN /\ queue' = RemoveAt(queue, queueIndex)
               /\ jobs' = js
               /\ clock' = clock + dt
               /\ UNCHANGED <<completedJobs, processing, currentJob, nextId,
                              pc, modelIdx, results, settled, svcVars>>
               /\ Deliver
     ELSE UNCHANGED vars

\* CancelJob without the splice that takes the job off the pending list
CancelJobKeepsQueued(id, dt) ==
  LET queueIndex == FindIndex(queue, id)
  IN IF currentJob # NoJob /\ currentJob = id
       THEN UNCHANGED vars
     ELSE IF queueIndex # 0
       THEN LET js == [jobs EXCEPT ![id].status = "cancelled",
                                   ![id].completedAt = clock + dt,
                                   ![id].events = Append(@, "jobCancelled")]
            IN /\ jobs' = js
               /\ clock' = clock + dt
               /\ completedJobs' = StoreCompleted(completedJobs, js, id)
               /\ UNCHANGED <<queue, processing, currentJob, nextId, pc,
                              modelIdx, results, settled, svcVars>>
               /\ Deliver
     ELSE UNCHANGED vars

\* cancelJob(jobId); dt is the time passed since the clock was last read.  A
\* call that returns false changes nothing
CancelJob(id, dt) ==
  LET queueIndex == FindIndex(queue, id)
  IN IF currentJob # NoJob /\ currentJob = id
       THEN UNCHANGED vars
     ELSE IF queueIndex # 0
       THEN LET js == [jobs EXCEPT ![id].status = "cancelled",
                                   ![id].completedAt = clock + dt,
                                   ![id].events = Append(@, "jobCancelled")]
            IN /\ queue' = RemoveAt(queue, queueIndex)
               /\ jobs' = js
               /\ clock' = clock + dt
               /\ completedJobs' = StoreCompleted(completedJobs, js, id)
               /\ UNCHANGED <<processing, currentJob, nextId, pc, modelIdx,
                              results, settled, svcVars>>
               /\ Deliver
     ELSE UNCHANGED vars

\* generateWithModels resumes: the awaited backend call settled with outcome
\* o; its entry is pushed and the loop goes on to the next await
BackendSettles(o) ==
  /\ pc = "backend"
  /\ LET job == jobs[currentJob]
         m   == job.models.items[modelIdx]
     IN /\ o \in BackendOutcomes(m, job.baseImage)
        /\ LET g == RunModels(job.models.items, modelIdx + 1,
                              Append(results, EntryOf(m, o)))
           IN /\ pc' = g.pc
              /\ modelIdx' = g.modelIdx
              /\ results' = g.results
              /\ settled' = g.settled
  /\ UNCHANGED <<queue, processing, currentJob, completedJobs, jobs, nextId,
                 clock, svcVars, mirrorVars>>

\* GenerateSettles with the try/catch around the job missing: the rejection
\* ends processQueue, which leaves processing set and starts no further job
GenerateSettlesUncaught(dt) ==
  /\ pc = "generated"
  /\ IF settled.threw
       THEN /\ dt = 0
            /\ pc' = "idle"
            /\ settled' = NoSettled
            /\ UNCHANGED <<queue, processing, currentJob, completedJobs,
                           jobs, clock, modelIdx, results>>
       ELSE /\ dt = 0
            /\ jobs' = [jobs EXCEPT ![currentJob].progress = 80,
                                    ![currentJob].events =
                                      Append(@, "jobProgress")]
            /\ pc' = "ranked"
            /\ settled' = [threw |-> FALSE, error |-> NoError,
                           value |-> rankResults(settled.value, modelStats)]
            /\ UNCHANGED <<queue, processing, currentJob, completedJobs,
                           clock, modelIdx, results>>
  /\ Deliver
  /\ UNCHANGED <<nextId, svcVars>>

\* processQueue resumes after await generateWithModels: on a rejection the
\* catch block marks the job failed, stores it and the loop goes on; otherwise
\* progress is 80 and rankResults is called and awaited
GenerateSettles(dt) ==
  /\ pc = "generated"
  /\ IF settled.threw
       THEN LET id == currentJob
                js == [jobs EXCEPT ![id].status = "failed",
                                   ![id].error = settled.error,
                                   ![id].completedAt = clock + dt,
                                   ![id].events = Append(@, "jobFailed")]
            IN /\ completedJobs' = StoreCompleted(completedJobs, js, id)
               /\ clock' = clock + dt
               /\ SetWorker(ProcessLoop(queue, js))
       ELSE /\ dt = 0
            /\ jobs' = [jobs EXCEPT ![currentJob].progress = 80,
                                    ![currentJob].events =
                                      Append(@, "jobProgress")]
            /\ pc' = "ranked"
            /\ settled' = [threw |-> FALSE, error |-> NoError,
                           value |-> rankResults(settled.value, modelStats)]
            /\ UNCHANGED <<queue, processing, currentJob, completedJobs,
                           clock, modelIdx, results>>
  /\ Deliver
  /\ UNCHANGED <<nextId, svcVars>>

\* RankSettles resuming only once every listener called so far has returned
\* for good, as if emit awaited the listeners
RankSettlesAfterListeners(dt) ==
  /\ \A t \in tasks : t.kind \notin Handled
  /\ pc = "ranked"
  /\ LET id == currentJob
         js == [jobs EXCEPT ![id].progress = 100,
                            ![id].status = "completed",
                            ![id].completedAt = clock + dt,
                            ![id].result = settled.value,
                            ![id].events = Append(@, "jobCompleted")]
     IN /\ completedJobs' = StoreCompleted(completedJobs, js, id)
        /\ clock' = clock + dt
        /\ SetWorker(ProcessLoop(queue, js))
  /\ Deliver
  /\ UNCHANGED <<nextId, svcVars>>

\* RankSettles without the completedJobs.set that stores the finished job
RankSettlesNotStored(dt) ==
  /\ pc = "ranked"
  /\ LET id == currentJob
         js == [jobs EXCEPT ![id].progress = 100,
                            ![id].status = "completed",
                            ![id].completedAt = clock + dt,
                            ![id].result = settled.value,
                            ![id].events = Append(@, "jobCompleted")]
     IN /\ clock' = clock + dt
        /\ SetWorker(ProcessLoop(queue, js))
  /\ Deliver
  /\ UNCHANGED <<completedJobs, nextId, svcVars>>

\* processQueue resumes after await rankResults: the job is marked completed
\* with the ranked results, stored, and the loop goes on
RankSettles(dt) ==
  /\ pc = "ranked"
  /\ LET id == currentJob
         js == [jobs EXCEPT ![id].progress = 100,
                            ![id].status = "completed",
                            ![id].completedAt = clock + dt,
                            ![id].result = settled.value,
                            ![id].events = Append(@, "jobCompleted")]
     IN /\ completedJobs' = StoreCompleted(completedJobs, js, id)
        /\ clock' = clock + dt
        /\ SetWorker(ProcessLoop(queue, js))
  /\ Deliver
  /\ UNCHANGED <<nextId, svcVars>>

\* getJobStatus with the 0-based findIndex value as queuePosition
getJobStatusZeroBased(id) ==
  IF currentJob # NoJob /\ currentJob = id
    THEN [found |-> TRUE, status |-> jobs[currentJob].status,
          queuePosition |-> 0]
  ELSE IF FindIndex(queue, id) # 0
    THEN [found |-> TRUE, status |-> jobs[id].status,
          queuePosition |-> FindIndex(queue, id) - 1]
  ELSE IF id \in Range(completedJobs)
    THEN [found |-> TRUE, status |-> jobs[id].status, queuePosition |-> -1]
  ELSE [found |-> FALSE, status |-> "none", queuePosition |-> -1]

\* getJobStatus(jobId): the record returned, found FALSE for null
NotFound == [found |-> FALSE, status |-> "none", queuePosition |-> -1]
getJobStatus(id) ==
  IF currentJob # NoJob /\ currentJob = id
    THEN [found |-> TRUE, status |-> jobs[currentJob].status,
          queuePosition |-> 0]
  ELSE IF FindIndex(queue, id) # 0
    THEN [found |-> TRUE, status |-> jobs[id].status,
          queuePosition |-> FindIndex(queue, id)]
  ELSE IF id \in Range(completedJobs)
    THEN [found |-> TRUE, status |-> jobs[id].status, queuePosition |-> -1]
  ELSE NotFound

\* getJobResult that also answers for the job in flight
getJobResultOfCurrent(id) ==
  IF id \in Range(completedJobs) \/ (currentJob # NoJob /\ currentJob = id)
    THEN [found |-> TRUE, status |-> jobs[id].status,
          result |-> jobs[id].result, error |-> jobs[id].error]
    ELSE [found |-> FALSE, status |-> "none", result |-> <<>>,
          error |-> NoError]

\* getJobResult(jobId): the record returned, found FALSE for null
NoResult ==
  [found |-> FALSE, status |-> "none", result |-> <<>>, error |-> NoError]
getJobResult(id) ==
  IF id \in Range(completedJobs)
    THEN [found |-> TRUE, status |-> jobs[id].status,
          result |-> jobs[id].result, error |-> jobs[id].error]
    ELSE NoResult

\* POST /:id/feedback with a rating, for the generation of job id: every
\* backend the generation names gets the score rating / 5
SubmitFeedback(id, rating) ==
  /\ id \in DOMAIN jobs
  /\ jobs[id].models.isArray
  /\ Range(jobs[id].models.items) \subseteq KnownBackends
  /\ LET stats == UpdateAll(modelStats, jobs[id].models.items, rating * 200)
     IN /\ \A m \in DOMAIN stats : stats[m].totalRuns <= MaxRuns
        /\ modelStats' = stats
  /\ UNCHANGED <<queueVars, mabVars, mirrorVars>>

\* -------------------------------------------------------------- MABService
Callers == 1..MaxCalls

\* arm names a feedback request may carry: the two arms and an unknown one
ModelNames == ArmSet \cup {"gan"}

\* calculateReward(stars), in 1/10
calculateReward(stars) == (stars - 3) * 5

\* star ratings of POST /rate; the reward of POST /share, in 1/10
Stars == {1, 3, 5}
shareReward == 8

IdleCall == [pc |-> "idle", model |-> "none", reward |-> 0,
             doc |-> NewPreference]
NoReturn == [op |-> "none"]

\* ucb values are in 1/1000; Infinity stands above every finite one
Infinity == 1000000000
\* 1000 * ln(T) for T = 1, 2, ...
LnMilli == <<0, 693, 1099, 1386, 1609, 1792, 1946, 2079>>
MaxRoot == 2100
Isqrt(v) == CHOOSE x \in 0..MaxRoot : x * x <= v /\ (x + 1) * (x + 1) > v

ucbValue(doc, a) ==
  LET stats      == doc.modelPreferences[a]
      totalPulls == IF doc.totalGenerations = 0 THEN 1
                    ELSE doc.totalGenerations
  IN IF stats.pulls = 0 THEN Infinity
     ELSE (stats.score.num * 100) \div stats.score.den
            + Isqrt((2 * LnMilli[totalPulls] * 1000) \div stats.pulls)

\* the loop of ucb with >= for >: the last of the arms with the best value
RECURSIVE UcbFromLast(_, _, _)
UcbFromLast(doc, i, best) ==
  IF i > Len(Arms) THEN best
  ELSE UcbFromLast(doc, i + 1,
                   IF ucbValue(doc, Arms[i]) >= best.ucb
                     THEN [model |-> Arms[i], ucb |-> ucbValue(doc, Arms[i])]
                     ELSE best)

\* the loop of ucb over Object.entries from arm i on
RECURSIVE UcbFrom(_, _, _)
UcbFrom(doc, i, best) ==
  IF i > Len(Arms) THEN best
  ELSE UcbFrom(doc, i + 1,
               IF ucbValue(doc, Arms[i]) > best.ucb
                 THEN [model |-> Arms[i], ucb |-> ucbValue(doc, Arms[i])]
                 ELSE best)

\* ucb keeping the last of the arms with the best value
ucbLastWins(doc) ==
  LET best == UcbFromLast(doc, 1, [model |-> "none", ucb |-> -Infinity])
  IN [op |-> "ucb", model |-> best.model,
      confidence |-> IF best.ucb >= 1000 THEN 100000
                     ELSE IF best.ucb > 0 THEN best.ucb * 100
                     ELSE 50000]

\* what ucb(userId) returns on the document doc; confidence in 1/100000
ucb(doc) ==
  LET best == UcbFrom(doc, 1, [model |-> "none", ucb |-> -Infinity])
  IN [op |-> "ucb", model |-> best.model,
      confidence |-> IF best.ucb >= 1000 THEN 100000
                     ELSE IF best.ucb > 0 THEN best.ucb * 100
                     ELSE 50000]

\* what epsilonGreedy(userId) returns on the document doc: explore says
\* whether Math.random() < eps, pick is the index the second draw gives
epsilonGreedy(doc, explore, pick) ==
  [op |-> "epsilon-greedy",
   model |-> IF explore THEN Arms[pick] ELSE getBestModel(doc).model,
   confidence |-> 100000 - doc.epsilon,
   exploring |-> explore]

\* the document getUserPreferences hands to a selection: the stored one, or a
\* new one that it stores first
Preferences == IF Len(store) = 0 THEN NewPreference ELSE store[1]

\* what MABService.updatePreferences does to the document it holds, up to the
\* save: the model method, then totalGenerations += 1
Updated(doc, model, reward) ==
  [updatePreferences(doc, model, reward) EXCEPT !.totalGenerations = @ + 1]

InFlight == {c \in Callers : calls[c].pc \in {"creating", "saving"}}

\* updatePreferences(userId, model, reward) up to its second await: findOne
\* has answered.  Without a document a new one is built and its save awaited;
\* with one, the document is updated in memory and its save awaited.  Calls
\* are numbered in the order they arrive
UpdateFinds(c, model, reward) ==
  /\ calls[c].pc = "idle"
  /\ \A b \in Callers : b < c => calls[b].pc # "idle"
  /\ calls' = [calls EXCEPT ![c] =
       IF Len(store) = 0
         THEN [pc |-> "creating", model |-> model, reward |-> reward,
               doc |-> NewPreference]
         ELSE [pc |-> "saving", model |-> model, reward |-> reward,
               doc |-> Updated(store[1], model, reward)]]
  /\ UNCHANGED <<store, ret, modelStats, queueVars, mirrorVars>>

\* the save of the new document has settled: the insert fails on the unique
\* userId index when another call has stored a document by then, and the
\* call rejects; otherwise getUserPreferences returns the new document, which
\* is updated in memory and its save awaited
UpdateCreates(c) ==
  /\ calls[c].pc = "creating"
  /\ IF Len(store) = 0
       THEN /\ store' = <<NewPreference>>
            /\ calls' = [calls EXCEPT ![c].pc = "saving",
                           ![c].doc = Updated(NewPreference, calls[c].model,
                                              calls[c].reward)]
       ELSE /\ calls' = [calls EXCEPT ![c].pc = "failed"]
            /\ UNCHANGED store
  /\ UNCHANGED <<ret, modelStats, queueVars, mirrorVars>>

\* save() validates the document against the schema first: a score that is
\* NaN cannot be cast to the Number the schema declares
Castable(doc) == \A a \in ArmSet : doc.modelPreferences[a].score # NaNScore

\* the save of the updated document has settled: the document the call holds
\* is the stored one now, and the call returns; a document that fails
\* validation is not written and the call rejects
UpdateSaves(c) ==
  /\ calls[c].pc = "saving"
  /\ IF Castable(calls[c].doc)
       THEN /\ store' = <<calls[c].doc>>
            /\ calls' = [calls EXCEPT ![c].pc = "returned"]
            /\ ret' = [op |-> "update", model |-> calls[c].model,
                       epsilon |-> calls[c].doc.epsilon,
                       totalGenerations |-> calls[c].doc.totalGenerations]
       ELSE /\ calls' = [calls EXCEPT ![c].pc = "failed"]
            /\ UNCHANGED <<store, ret>>
  /\ UNCHANGED <<modelStats, queueVars, mirrorVars>>

\* selectModel(userId, 'epsilon-greedy')
SelectEpsilonGreedy(explore, pick) ==
  /\ explore => Preferences.epsilon > 0
  /\ ~explore => Preferences.epsilon < 100000
  /\ ret' = epsilonGreedy(Preferences, explore, pick)
  /\ store' = <<Preferences>>
  /\ UNCHANGED <<calls, modelStats, queueVars, mirrorVars>>

\* selectModel(userId, 'ucb')
SelectUcb ==
  /\ Preferences.totalGenerations <= Len(LnMilli)
  /\ ret' = ucb(Preferences)
  /\ store' = <<Preferences>>
  /\ UNCHANGED <<calls, modelStats, queueVars, mirrorVars>>

\* ---------------------------------------------------------- feedback routes
\* a value of a request body's field: absent, a number, or a text that is no
\* number
AbsentValue == [kind |-> "absent", value |-> 0]
Number(n) == [kind |-> "number", value |-> n]
TextValue == [kind |-> "text", value |-> 0]
NoModel == "none"

\* !v
Falsy(v) == v.kind = "absent" \/ (v.kind = "number" /\ v.value = 0)

\* stars < 1 || stars > 5: both comparisons are false when stars is no number
OutOfRange(v) == v.kind = "number" /\ (v.value < 1 \/ v.value > 5)

\* calculateReward(stars) on a value of the body
rateReward(v) == IF v.kind = "number" THEN calculateReward(v.value) ELSE NaN

\* reward of POST /like, in 1/10: liked ? 0.5 : -0.5
likeReward(v) == IF Falsy(v) THEN -5 ELSE 5

\* the values a body may carry as stars, rating or liked
SentValues == {AbsentValue, TextValue} \cup {Number(n) : n \in {0, 1, 3, 5, 6}}

\* the bodies of rating and of like requests: userId and imageId say whether
\* the field is there
RateBodies ==
  [userId : BOOLEAN, imageId : BOOLEAN, model : ModelNames \cup {NoModel},
   stars : SentValues, rating : {AbsentValue, Number(5)}]
LikeBodies ==
  [userId : BOOLEAN, imageId : BOOLEAN, model : ModelNames \cup {NoModel},
   liked : {AbsentValue, Number(0), Number(1)}]

\* res.status(400): the request is answered before the service is called
Rejects(c) ==
  /\ calls[c].pc = "idle"
  /\ \A b \in Callers : b < c => calls[b].pc # "idle"
  /\ calls' = [calls EXCEPT ![c].pc = "rejected"]
  /\ UNCHANGED <<store, ret, modelStats, queueVars, mirrorVars>>

\* POST /api/feedback/rate up to the first await inside updatePreferences
PostRate(c, body) ==
  IF ~body.userId \/ body.model = NoModel \/ Falsy(body.stars)
    THEN Rejects(c)
  ELSE IF OutOfRange(body.stars)
    THEN Rejects(c)
  ELSE UpdateFinds(c, body.model, rateReward(body.stars))

\* POST /api/feedback/like up to the first await inside updatePreferences
PostLike(c, body) ==
  IF ~body.userId \/ body.model = NoModel \/ body.liked.kind = "absent"
    THEN Rejects(c)
  ELSE UpdateFinds(c, body.model, likeReward(body.liked))

\* the status the route answers with once the call has ended
StatusOf(call) ==
  IF call.pc = "rejected" THEN 400
  ELSE IF call.pc = "failed" THEN 500
  ELSE IF call.pc = "returned" THEN 200
  ELSE 0

\* ------------------------------------------------------- generation router
\* what selectModels reads of a prompt analysis: whether a style names one of
\* the style keywords, whether there are styles at all, whether 'abstract' is
\* among the concepts, the length of the prompt, whether a concept is one of
\* the diffusion concepts, and whether lighting, colors, textures are named
Analyses ==
  {a \in [hasStyleReference : BOOLEAN, styles : BOOLEAN, abstract : BOOLEAN,
          promptLength : {20, 80, 120}, hasDiffusionConcept : BOOLEAN,
          lighting : BOOLEAN, colors : BOOLEAN, textures : BOOLEAN] :
     a.hasStyleReference => a.styles}

\* the scores are sums of doubles.  A score is kept as its decimal value in
\* units of 1/10 times Tenth, plus or minus one when the double the additions
\* give lies above or below the double of that decimal
Tenth == 100000
Details(a) ==
  (IF a.lighting THEN 1 ELSE 0) + (IF a.colors THEN 1 ELSE 0)
    + (IF a.textures THEN 1 ELSE 0)

\* 0.2 + 0.1 + 0.3 and 0.4 + 0.2 + 0.3 round up; the other sums are exact
styleTransferDrift(a) ==
  IF a.styles /\ (a.hasStyleReference # a.abstract) THEN 1 ELSE 0

diffusionDrift(a) ==
  LET k == Details(a)
      c == a.hasDiffusionConcept
  IN IF a.promptLength <= 50
       THEN IF k = 3 THEN (IF c THEN -1 ELSE 1) ELSE 0
     ELSE IF a.promptLength <= 100
       THEN IF k = 1 THEN (IF c THEN -1 ELSE 1)
            ELSE IF k = 3 /\ c THEN -1 ELSE 0
     ELSE IF k = 0 THEN 1
          ELSE IF k = 3 /\ ~c THEN -1 ELSE 0

styleTransferScore(a) ==
  Tenth * ((IF a.hasStyleReference THEN 4 ELSE 0) + (IF a.styles THEN 2 ELSE 0)
             + (IF a.abstract THEN 1 ELSE 0) + 3)
    + styleTransferDrift(a)

diffusionScore(a) ==
  Tenth * ((IF a.promptLength > 50 THEN 2 ELSE 0)
             + (IF a.promptLength > 100 THEN 1 ELSE 0)
             + (IF a.hasDiffusionConcept THEN 3 ELSE 0) + Details(a) + 3)
    + diffusionDrift(a)

\* Math.min(score / maxScore, 1.0), in 1/1000 and rounded down
Normalized(score, maxScore) == Min((score * 1000) \div maxScore, 1000)

\* selectModels(promptAnalysis): the recommendations, confidence in 1/1000
selectModels(a) ==
  LET st       == styleTransferScore(a)
      df       == diffusionScore(a)
      maxScore == Max(st, df)
  IN (IF 2 * st >= maxScore
        THEN <<[model |-> "style-transfer",
                confidence |-> Normalized(st, maxScore)]>>
        ELSE <<>>)
     \o (IF 2 * df >= maxScore
           THEN <<[model |-> "diffusion",
                   confidence |-> Normalized(df, maxScore)]>>
           ELSE <<>>)
     \o <<[model |-> "diffusion", confidence |-> 1000]>>

\* recommendations.map(r => r.model)
ModelsOf(recommendations) ==
  [i \in 1..Len(recommendations) |-> recommendations[i].model]

\* POST /api/generate in auto mode, up to the await of the first
\* generation.save(): the analysis has arrived and selectModels has run
SelectModels(analysis) ==
  /\ ret' = [op |-> "selectModels",
             recommendations |-> selectModels(analysis)]
  /\ UNCHANGED <<queueVars, modelStats, store, calls, mirrorVars>>

\* the prompts of generation requests: none, and some text
Prompts == {"", "a cat"}

\* the router's default priority
defaultPriority == 0

\* the callback of a request that awaits its second generation.save()
Request(id) ==
  [kind |-> "request", id |-> id, n |-> 0, pc |-> "saving", status |-> "none"]

\* POST /api/generate from the moment the first generation.save() has
\* settled: without a prompt the request was answered 400 before anything
\* else; otherwise the document is in the database with status pending, addJob
\* is called, the job id is put on the document and the second save awaited
PostGenerate(prompt, priority, models, baseImage) ==
  IF prompt = ""
    THEN UNCHANGED vars
    ELSE /\ Cardinality(DOMAIN generations) < MaxSubmits
         /\ addJob(priority, models, baseImage)
         /\ generations' =
              [i \in DOMAIN generations \cup {nextId} |->
                 IF i = nextId THEN [status |-> "pending", jobId |-> FALSE]
                 ELSE generations[i]]
         /\ tasks' = (IF listening THEN tasks \cup Spawned ELSE tasks)
                       \cup {Request(nextId)}
         /\ UNCHANGED <<listening, svcVars>>

\* the second save of a request has settled: the document carries
\* metadata.jobId from now on, and the request is answered
RequestSaves(t) ==
  /\ t \in tasks
  /\ t.kind = "request"
  /\ generations' = [generations EXCEPT ![t.id].jobId = TRUE]
  /\ tasks' = tasks \ {t}
  /\ UNCHANGED <<listening, queueVars, svcVars>>

\* the status a listener puts on the document it found: the jobProgress
\* listener copies job.status as it is when the listener resumes
StatusWritten(t) ==
  IF t.kind = "jobCompleted" THEN "completed"
  ELSE IF t.kind = "jobFailed" THEN "failed"
  ELSE jobs[t.id].status

\* a listener resumes after findOne({'metadata.jobId': job.id}): without a
\* document it returns; with one it sets the status and awaits the save
HandlerFinds(t) ==
  /\ t \in tasks
  /\ t.kind \in Handled
  /\ t.pc = "finding"
  /\ tasks' = IF t.id \in DOMAIN generations /\ generations[t.id].jobId
                THEN (tasks \ {t})
                       \cup {[t EXCEPT !.pc = "saving",
                                       !.status = StatusWritten(t)]}
                ELSE tasks \ {t}
  /\ UNCHANGED <<listening, generations, queueVars, svcVars>>

\* the save of a listener has settled
HandlerSaves(t) ==
  /\ t \in tasks
  /\ t.kind \in Handled
  /\ t.pc = "saving"
  /\ generations' = [generations EXCEPT ![t.id].status = t.status]
  /\ tasks' = tasks \ {t}
  /\ UNCHANGED <<listening, queueVars, svcVars>>

\* ---------------------------------------------------------- specification
\* the queue on its own: the generation router is not loaded, so nothing
\* listens to the queue's events
NoRouter ==
  /\ listening = FALSE
  /\ generations = <<>>
  /\ tasks = {}

\* the services besides the queue, as the server starts on an empty database
InitServices ==
  /\ modelStats = InitialModelStats
  /\ store = <<>>
  /\ calls = [c \in Callers |-> IdleCall]
  /\ ret = NoReturn
  /\ NoRouter

\* the state the constructor leaves
Init ==
  /\ queue = <<>>
  /\ processing = FALSE
  /\ currentJob = NoJob
  /\ completedJobs = <<>>
  /\ jobs = [i \in {} |-> NewJob(0, [isArray |-> TRUE, items |-> <<>>], FALSE)]
  /\ nextId = Preloaded + 1
  /\ clock = 0
  /\ pc = "idle"
  /\ modelIdx = 0
  /\ results = <<>>
  /\ settled = NoSettled
  /\ InitServices

\* a finished job as the cache holds it after a long run: job i was the i-th
\* to finish, two jobs per clock value
PreloadedJob(i) ==
  LET st == IF i % 3 = 0 THEN "cancelled"
            ELSE IF i % 3 = 1 THEN "completed" ELSE "failed"
  IN [status |-> st, priority |-> 5,
      models |-> IF st = "failed" THEN [isArray |-> FALSE, items |-> <<>>]
                 ELSE [isArray |-> TRUE, items |-> <<"diffusion">>],
      baseImage |-> FALSE,
      progress |-> IF st = "completed" THEN 100 ELSE IF st = "failed" THEN 10
                   ELSE 0,
      completedAt |-> i \div 2,
      result |-> IF st = "completed"
                   THEN <<[OkEntry("diffusion", "url", 0) EXCEPT !.score = 500]>>
                   ELSE <<>>,
      error |-> IF st = "failed" THEN "models.join is not a function"
                ELSE NoError,
      events |-> IF st = "cancelled" THEN <<"jobAdded", "jobCancelled">>
                 ELSE IF st = "failed"
                   THEN <<"jobAdded">> \o StartEvents \o <<"jobFailed">>
                 ELSE <<"jobAdded">> \o StartEvents
                        \o <<"jobProgress", "jobCompleted">>]

\* the queue of a server that has run for a while: idle, with Preloaded
\* finished jobs in the completed cache
InitWarm ==
  /\ queue = <<>>
  /\ processing = FALSE
  /\ currentJob = NoJob
  /\ completedJobs = [i \in 1..Preloaded |-> i]
  /\ jobs = [i \in 1..Preloaded |-> PreloadedJob(i)]
  /\ nextId = Preloaded + 1
  /\ clock = Preloaded \div 2
  /\ pc = "idle"
  /\ modelIdx = 0
  /\ results = <<>>
  /\ settled = NoSettled
  /\ InitServices

Outcomes == UNION {BackendOutcomes(m, b) : m \in KnownBackends, b \in BOOLEAN}

Next ==
  \/ \E p \in Priorities, a \in JobArgs : AddJob(p, a.models, a.baseImage)
  \/ \E id \in LookupIds, dt \in 0..1 : CancelJob(id, dt)
  \/ \E o \in Outcomes : BackendSettles(o)
  \/ \E dt \in 0..1 : GenerateSettles(dt)
  \/ \E dt \in 0..1 : RankSettles(dt)

Spec == Init /\ [][Next]_vars

\* as Next, with every job added at one priority, so that the pending list
\* is first in, first out
NextFifo ==
  \/ \E a \in JobArgs : AddJob(5, a.models, a.baseImage)
  \/ \E id \in LookupIds, dt \in 0..1 : CancelJob(id, dt)
  \/ \E o \in Outcomes : BackendSettles(o)
  \/ \E dt \in 0..1 : GenerateSettles(dt)
  \/ \E dt \in 0..1 : RankSettles(dt)

\* the event loop resumes a suspended processQueue once the promise it awaits
\* has settled, and every backend call is assumed to return
Fairness ==
  /\ WF_vars(\E o \in Outcomes : BackendSettles(o))
  /\ WF_vars(\E dt \in 0..1 : GenerateSettles(dt))
  /\ WF_vars(\E dt \in 0..1 : RankSettles(dt))

FairSpec == Init /\ [][NextFifo]_vars /\ Fairness

SpecWarm == InitWarm /\ [][NextFifo]_vars


\* backend names a caller may list: the two known ones and an unknown one
BackendNames == KnownBackends \cup {"sketch"}
ModelLists == UNION {[1..n -> BackendNames] : n \in 0..MaxModels}

\* the state right after addJob on the constructor's state, for any list of
\* backend names and either setting of params.baseImage: the job is in flight
\* and generateWithModels has run up to its first await
InitOrch ==
  \E items \in ModelLists, b \in BOOLEAN :
    LET id == Preloaded + 1
        js == [i \in {id} |->
                 NewJob(5, [isArray |-> TRUE, items |-> items], b)]
        w  == ProcessLoop(<<id>>, js)
    IN /\ queue = w.queue
       /\ jobs = w.jobs
       /\ currentJob = w.currentJob
       /\ processing = w.processing
       /\ pc = w.pc
       /\ modelIdx = w.modelIdx
       /\ results = w.results
       /\ settled = w.settled
       /\ completedJobs = <<>>
       /\ nextId = id + 1
       /\ clock = 0
       /\ InitServices

\* the worker's steps on that job
NextOrch ==
  \/ \E o \in Outcomes : BackendSettles(o)
  \/ \E dt \in 0..1 : GenerateSettles(dt)
  \/ \E dt \in 0..1 : RankSettles(dt)

SpecOrch == InitOrch /\ [][NextOrch]_vars

\* the state in which generateWithModels has just returned the results of one
\* job, for any list of backend names and any way the backend calls settled
RankOutcomes(m, b) ==
  IF m \in KnownBackends THEN BackendOutcomesIn(m, b, RankTimes)
  ELSE {[ok |-> FALSE, imageUrl |-> NoUrl, time |-> 0,
         error |-> "Unknown model"]}

AllRankOutcomes ==
  UNION {RankOutcomes(m, b) : m \in BackendNames, b \in BOOLEAN}

InitRank ==
  \E items \in ModelLists, b \in BOOLEAN :
    \E os \in [1..Len(items) -> AllRankOutcomes] :
      LET id == Preloaded + 1
          js == [i \in {id} |->
                   [NewJob(5, [isArray |-> TRUE, items |-> items], b)
                      EXCEPT !.status = "processing", !.progress = 10,
                             !.events = @ \o StartEvents]]
      IN /\ \A i \in 1..Len(items) : os[i] \in RankOutcomes(items[i], b)
         /\ queue = <<>>
         /\ jobs = js
         /\ currentJob = id
         /\ processing = TRUE
         /\ pc = "generated"
         /\ modelIdx = 0
         /\ results = <<>>
         /\ settled = [threw |-> FALSE, error |-> NoError,
                       value |-> [i \in 1..Len(items) |->
                                    EntryOf(items[i], os[i])]]
         /\ completedJobs = <<>>
         /\ nextId = id + 1
         /\ clock = 0
         /\ InitServices

\* feedback on the generation and the worker's remaining steps on its job
NextRank ==
  \/ \E id \in NewIds, r \in Ratings : SubmitFeedback(id, r)
  \/ \E dt \in 0..1 : GenerateSettles(dt)
  \/ \E dt \in 0..1 : RankSettles(dt)

SpecRank == InitRank /\ [][NextRank]_vars

\* the feedback count of a user who has given feedback for a long time
LongRun == 68

\* that user's document: LongRun three-star ratings of diffusion, one after
\* the other
LongRunPreference ==
  [NewPreference EXCEPT
     !.modelPreferences["diffusion"].pulls = LongRun,
     !.epsilon = Max(minEpsilon, Decayed(LongRun - 1)),
     !.totalGenerations = LongRun,
     !.totalFeedback = LongRun]

\* an idle queue, and a user who is new or has given feedback for long
InitMab ==
  /\ queue = <<>>
  /\ processing = FALSE
  /\ currentJob = NoJob
  /\ completedJobs = <<>>
  /\ jobs = [i \in {} |-> NewJob(0, [isArray |-> TRUE, items |-> <<>>], FALSE)]
  /\ nextId = Preloaded + 1
  /\ clock = 0
  /\ pc = "idle"
  /\ modelIdx = 0
  /\ results = <<>>
  /\ settled = NoSettled
  /\ modelStats = InitialModelStats
  /\ store \in {<<>>, <<LongRunPreference>>}
  /\ calls = [c \in Callers |-> IdleCall]
  /\ ret = NoReturn
  /\ NoRouter

\* rating requests of one user, handled concurrently
NextMab ==
  \/ \E c \in Callers, m \in ModelNames, stars \in Stars :
       UpdateFinds(c, m, calculateReward(stars))
  \/ \E c \in Callers : UpdateCreates(c)
  \/ \E c \in Callers : UpdateSaves(c)

SpecMab == InitMab /\ [][NextMab]_vars

\* feedback requests of a new user, rating and sharing, each sent after the
\* one before has been answered
NextSeq ==
  \/ \E c \in Callers, m \in ModelNames, stars \in Stars :
       InFlight = {} /\ UpdateFinds(c, m, calculateReward(stars))
  \/ \E c \in Callers, m \in ModelNames :
       InFlight = {} /\ UpdateFinds(c, m, shareReward)
  \/ \E c \in Callers : UpdateCreates(c)
  \/ \E c \in Callers : UpdateSaves(c)

SpecSeq == Init /\ [][NextSeq]_vars

\* a new user's ratings, one at a time, and epsilon-greedy selections
NextGreedy ==
  \/ \E c \in Callers, m \in ModelNames, stars \in Stars :
       InFlight = {} /\ UpdateFinds(c, m, calculateReward(stars))
  \/ \E c \in Callers : UpdateCreates(c)
  \/ \E c \in Callers : UpdateSaves(c)
  \/ \E explore \in BOOLEAN, pick \in 1..Len(Arms) :
       SelectEpsilonGreedy(explore, pick)

SpecGreedy == Init /\ [][NextGreedy]_vars

\* a new user who asks ucb for an arm, gives feedback on the arm returned,
\* waits for the answer and asks again
NextUcb ==
  \/ ret.op # "ucb" /\ InFlight = {} /\ SelectUcb
  \/ \E c \in Callers, stars \in Stars :
       /\ ret.op = "ucb"
       /\ InFlight = {}
       /\ UpdateFinds(c, ret.model, calculateReward(stars))
  \/ \E c \in Callers :
       /\ ret.op = "ucb"
       /\ InFlight = {}
       /\ UpdateFinds(c, ret.model, shareReward)
  \/ \E c \in Callers : UpdateSaves(c)

SpecUcb == Init /\ [][NextUcb]_vars

\* feedback requests of one user with any body, each sent after the one
\* before has been answered
NextRoutes ==
  \/ \E c \in Callers, body \in RateBodies :
       InFlight = {} /\ PostRate(c, body)
  \/ \E c \in Callers, body \in LikeBodies :
       InFlight = {} /\ PostLike(c, body)
  \/ \E c \in Callers : UpdateCreates(c)
  \/ \E c \in Callers : UpdateSaves(c)

SpecRoutes == Init /\ [][NextRoutes]_vars

\* the server with the generation router loaded, on an empty database
InitRouter ==
  /\ queue = <<>>
  /\ processing = FALSE
  /\ currentJob = NoJob
  /\ completedJobs = <<>>
  /\ jobs = [i \in {} |-> NewJob(0, [isArray |-> TRUE, items |-> <<>>], FALSE)]
  /\ nextId = Preloaded + 1
  /\ clock = 0
  /\ pc = "idle"
  /\ modelIdx = 0
  /\ results = <<>>
  /\ settled = NoSettled
  /\ modelStats = InitialModelStats
  /\ store = <<>>
  /\ calls = [c \in Callers |-> IdleCall]
  /\ ret = NoReturn
  /\ listening = TRUE
  /\ generations = <<>>
  /\ tasks = {}

\* the model lists of requests that name their backends; no request carries
\* a base image
RouteModels == {<<"style-transfer">>, <<"diffusion">>}

\* generation requests that name one backend, the worker's steps, and the
\* steps of the router's callbacks; the clock stands still
NextRouter ==
  \/ \E prompt \in Prompts, items \in RouteModels :
       PostGenerate(prompt, defaultPriority,
                    [isArray |-> TRUE, items |-> items], FALSE)
  \/ \E o \in Outcomes : BackendSettles(o)
  \/ GenerateSettles(0)
  \/ RankSettles(0)
  \/ \E t \in tasks : RequestSaves(t)
  \/ \E t \in tasks : HandlerFinds(t)
  \/ \E t \in tasks : HandlerSaves(t)

SpecRouter == InitRouter /\ [][NextRouter]_vars

\* the worker's steps are fair; no callback of the router need ever resume
FairnessRouter ==
  /\ WF_vars(\E o \in Outcomes : BackendSettles(o))
  /\ WF_vars(GenerateSettles(0))
  /\ WF_vars(RankSettles(0))

FairRouter == InitRouter /\ [][NextRouter]_vars /\ FairnessRouter

\* generation requests in auto mode: the analysis arrives and selectModels
\* runs, then the job is added with the backends recommended; when the
\* analysis fails the job is added with diffusion alone.  The requests of a
\* run carry one prompt, so one analysis; the router's callbacks are left
\* suspended
NextAuto ==
  \/ \E analysis \in Analyses : ret.op = "none" /\ SelectModels(analysis)
  \/ \E prompt \in Prompts :
       /\ ret.op = "selectModels"
       /\ PostGenerate(prompt, defaultPriority,
                       [isArray |-> TRUE,
                        items |-> ModelsOf(ret.recommendations)], FALSE)
  \/ \E prompt \in Prompts :
       PostGenerate(prompt, defaultPriority,
                    [isArray |-> TRUE, items |-> <<"diffusion">>], FALSE)
  \/ \E o \in Outcomes : BackendSettles(o)
  \/ \E dt \in 0..1 : GenerateSettles(dt)
  \/ \E dt \in 0..1 : RankSettles(dt)

SpecAuto == InitRouter /\ [][NextAuto]_vars

\* ------------------------------------------------------------------ claims
StatusIs(id, st) == id \in DOMAIN jobs /\ jobs[id].status = st
ProcessingJobs == {id \in DOMAIN jobs : jobs[id].status = "processing"}

\* C1: at most one job has status processing, and it is the current job of
\* the one running worker loop: the loop runs (processing is set and it is
\* suspended at one of its awaits) exactly while a job is in flight, so a
\* second job is started only after the job in flight has finished.
C1_SingleWorker ==
  /\ Cardinality(ProcessingJobs) <= 1
  /\ ProcessingJobs = (IF currentJob = NoJob THEN {} ELSE {currentJob})
  /\ processing <=> (currentJob # NoJob)
  /\ processing <=> (pc # "idle")

\* a job was added while the loop was running: one job is in flight and two
\* more are pending
C1_Witness ==
  /\ processing
  /\ Cardinality(ProcessingJobs) = 1
  /\ Len(queue) >= 2

\* job id is started by the step: it is processing after it and was pending,
\* or only just created, before
Started(id) ==
  /\ id \in DOMAIN jobs'
  /\ jobs'[id].status = "processing"
  /\ (id \in DOMAIN jobs => jobs[id].status = "pending")

\* C2: the job the worker starts has maximal priority among the pending jobs,
\* and is the earliest submitted (least id) among the pending jobs of that
\* priority.
C2_PickOrder ==
  [][\A id \in NewIds :
       Started(id) =>
         \A j \in DOMAIN jobs' :
           jobs'[j].status = "pending" =>
             \/ jobs'[j].priority < jobs'[id].priority
             \/ jobs'[j].priority = jobs'[id].priority /\ id < j]_vars

\* a job of higher priority, submitted later, was started ahead of an earlier
\* job of lower priority, which is still pending
C2_Witness ==
  \E a, b \in NewIds :
    /\ StatusIs(a, "processing") /\ StatusIs(b, "pending")
    /\ b < a /\ jobs[b].priority < jobs[a].priority

\* the status changes a job may make
AllowedMoves ==
  { <<"pending", "processing">>, <<"processing", "completed">>,
    <<"processing", "failed">>, <<"pending", "cancelled">> }

\* C3: a job's status changes only along pending -> processing -> completed,
\* pending -> processing -> failed or pending -> cancelled (a job starts as
\* pending); so a terminal status never changes and a cancelled job is never
\* started.
C3_StatusMachine ==
  [][\A id \in DOMAIN jobs' :
       IF id \in DOMAIN jobs
         THEN \/ jobs'[id].status = jobs[id].status
              \/ <<jobs[id].status, jobs'[id].status>> \in AllowedMoves
         ELSE jobs'[id].status \in {"pending", "processing"}]_vars

\* jobs added in this run have ended in each of the three terminal states
C3_Witness ==
  \E a, b, c \in NewIds :
    /\ StatusIs(a, "completed") /\ StatusIs(b, "failed")
    /\ StatusIs(c, "cancelled")

\* C4: when generateWithModels throws for the job in flight, the worker's next
\* step marks that job failed with the error's message, puts it in the
\* completed cache and starts the head of the pending list; the loop ends
\* only when nothing is pending.
C4_FailureContinues ==
  [][(pc = "generated" /\ settled.threw /\ \E dt \in 0..1 : GenerateSettles(dt))
       => /\ jobs'[currentJob].status = "failed"
          /\ jobs'[currentJob].error = settled.error
          /\ jobs'[currentJob].error # NoError
          /\ currentJob \in Range(completedJobs')
          /\ IF Len(queue) > 0
               THEN /\ currentJob' = Head(queue)
                    /\ jobs'[Head(queue)].status = "processing"
                    /\ processing' /\ pc' # "idle"
               ELSE ~processing' /\ pc' = "idle" /\ currentJob' = NoJob]_vars

\* a job has failed and is in the cache, and the worker is busy with the job
\* it started after it
C4_Witness ==
  \E f \in NewIds :
    /\ StatusIs(f, "failed") /\ jobs[f].error # NoError
    /\ f \in Range(completedJobs)
    /\ currentJob # NoJob /\ jobs[currentJob].status = "processing"


DiffusionOnly == [isArray |-> TRUE, items |-> <<"diffusion">>]

\* job id has finished; if it was added for the single backend diffusion and
\* was not cancelled it is completed with a result of exactly one entry, for
\* backend diffusion
Finished(id) ==
  /\ id \in DOMAIN jobs
  /\ jobs[id].status \in Terminal
  /\ (jobs[id].models = DiffusionOnly /\ jobs[id].status # "cancelled")
       => /\ jobs[id].status = "completed"
          /\ Len(jobs[id].result) = 1
          /\ jobs[id].result[1].model = "diffusion"

AllIds == DOMAIN jobs \cup LookupIds

\* C6 as claimed: cancelJob returns false for the job in flight and for an id
\* that was never added, and true for every other id.
C6_TrueForEveryOtherId ==
  \A id \in NewIds :
    cancelJobReturns(id) = ~(id = currentJob \/ id \notin DOMAIN jobs)

\* C6 as amended: cancelJob(id) returns true exactly when job id is pending;
\* it returns false for the job in flight, for an unknown id and for a job
\* that is already completed, failed or cancelled.  Right after a call that
\* returned true, getJobStatus(id) reports status cancelled.
C6_TrueIffPending ==
  /\ [](\A id \in AllIds : cancelJobReturns(id) <=> StatusIs(id, "pending"))
  /\ [][\A id \in LookupIds, dt \in 0..1 :
          (cancelJobReturns(id) /\ CancelJob(id, dt))
            => (getJobStatus(id).found /\ getJobStatus(id).status = "cancelled")']_vars

\* a pending job was cancelled when the cache was full (the oldest cached job
\* was evicted for it) and getJobStatus reports it cancelled, while another
\* job is in flight
C6_Witness ==
  \E id \in NewIds :
    /\ StatusIs(id, "cancelled")
    /\ getJobStatus(id).status = "cancelled"
    /\ 1 \notin Range(completedJobs)
    /\ currentJob # NoJob
    /\ ~cancelJobReturns(id) /\ ~cancelJobReturns(currentJob)

\* C7: the completed cache never holds more than maxCompletedJobs (100) jobs,
\* and a job a step evicts has a completion time no later than that of every
\* job the step leaves in the cache.
C7_BoundedCache ==
  /\ [](Len(completedJobs) <= maxCompletedJobs)
  /\ [][\A e \in Range(completedJobs) \ Range(completedJobs') :
          \A k \in Range(completedJobs') :
            jobs'[e].completedAt <= jobs'[k].completedAt]_vars

\* the full cache holds a completed, a failed and a cancelled job of this run,
\* and the three oldest jobs were evicted for them
C7_Witness ==
  /\ Len(completedJobs) = maxCompletedJobs
  /\ {1, 2, 3} \cap Range(completedJobs) = {}
  /\ \E a, b, c \in NewIds \cap Range(completedJobs) :
       /\ StatusIs(a, "completed") /\ StatusIs(b, "failed")
       /\ StatusIs(c, "cancelled")

\* C8: getJobStatus(id) reports a pending job as pending with its 1-based
\* position in the pending list, the job in flight as processing, a finished
\* job that is in the cache with its terminal status, and not-found exactly
\* for an id that was never added or whose job was evicted from the cache.
C8_StatusLookup ==
  \A id \in AllIds :
    LET r == getJobStatus(id)
    IN IF id \notin DOMAIN jobs THEN ~r.found
       ELSE IF jobs[id].status = "pending"
         THEN /\ r.found /\ r.status = "pending"
              /\ r.queuePosition \in 1..Len(queue)
              /\ queue[r.queuePosition] = id
       ELSE IF jobs[id].status = "processing"
         THEN r.found /\ r.status = "processing" /\ id = currentJob
       ELSE IF id \in Range(completedJobs)
         THEN r.found /\ r.status = jobs[id].status /\ r.status \in Terminal
       ELSE ~r.found

\* one job is in flight, one is pending, one was cancelled and is cached, and
\* the oldest cached job was evicted
C8_Witness ==
  \E a, b, c \in NewIds :
    /\ getJobStatus(a).status = "processing"
    /\ getJobStatus(b).status = "pending" /\ getJobStatus(b).queuePosition = 1
    /\ getJobStatus(c).status = "cancelled"
    /\ 1 \in DOMAIN jobs /\ ~getJobStatus(1).found

\* C9: getJobResult(id) returns a record exactly for a job that is completed,
\* failed or cancelled and still in the cache; for an unknown id, a pending
\* job, the job in flight and an evicted job it returns not-found.
C9_ResultLookup ==
  \A id \in AllIds :
    LET r == getJobResult(id)
    IN /\ r.found <=> /\ id \in DOMAIN jobs
                      /\ jobs[id].status \in Terminal
                      /\ id \in Range(completedJobs)
       /\ r.found => /\ r.status = jobs[id].status
                     /\ r.result = jobs[id].result
                     /\ r.error = jobs[id].error

\* a finished job's result is returned while another job is in flight, a
\* third is pending, and the oldest cached job was evicted
C9_Witness ==
  \E a, b, c \in NewIds :
    /\ StatusIs(a, "completed") /\ getJobResult(a).found
    /\ Len(getJobResult(a).result) = 1
    /\ StatusIs(b, "processing") /\ ~getJobResult(b).found
    /\ StatusIs(c, "pending") /\ ~getJobResult(c).found
    /\ 1 \in DOMAIN jobs /\ ~getJobResult(1).found


\* entry e is the entry of a backend call that raised
IsError(e) == e.error # NoError /\ e.imageUrl = NoUrl

\* C10: generateWithModels returns exactly one entry per requested backend, in
\* request order; the entry of an unknown backend name, or of style-transfer
\* without a base image, carries the name and an error message; and while a
\* backend call is awaited the entries of all backends listed before it are
\* there, whether they failed or not, so a failure skips no later backend.
C10_OneEntryPerBackend ==
  currentJob # NoJob /\ jobs[currentJob].models.isArray =>
    LET items == jobs[currentJob].models.items
        OrderOk(res) ==
          \A i \in 1..Len(res) :
            /\ res[i].model = items[i]
            /\ IsError(res[i]) \/ res[i].error = NoError
            /\ items[i] \notin KnownBackends => IsError(res[i])
            /\ (items[i] = "style-transfer" /\ ~jobs[currentJob].baseImage)
                 => IsError(res[i])
    IN /\ pc = "backend" =>
            /\ modelIdx \in 1..Len(items)
            /\ items[modelIdx] \in KnownBackends
            /\ Len(results) = modelIdx - 1
            /\ OrderOk(results)
       /\ pc = "generated" =>
            /\ ~settled.threw
            /\ Len(settled.value) = Len(items)
            /\ OrderOk(settled.value)

\* generateWithModels returned three entries: the first for an unknown name,
\* the second for a known backend whose call raised, the third for a backend
\* that was still invoked and succeeded
C10_Witness ==
  /\ pc = "generated" /\ ~settled.threw
  /\ Len(settled.value) = 3
  /\ jobs[currentJob].models.items[1] \notin KnownBackends
  /\ jobs[currentJob].models.items[2] \in KnownBackends
  /\ IsError(settled.value[1]) /\ IsError(settled.value[2])
  /\ settled.value[3].error = NoError /\ settled.value[3].imageUrl # NoUrl

\* C11: rankResults returns exactly the input entries that have no error and
\* have an output, each with its score set, ordered by non-increasing score,
\* when there is such an entry; otherwise it returns the input list unchanged
Unscored(e) == [e EXCEPT !.score = 0]

SameEntries(out, valid) ==
  /\ Len(out) = Len(valid)
  /\ \E f \in [1..Len(out) -> 1..Len(out)] :
       /\ \A i, j \in 1..Len(out) : i # j => f[i] # f[j]
       /\ \A i \in 1..Len(out) : Unscored(out[i]) = Unscored(valid[f[i]])

C11_RankResults ==
  [][(pc = "generated" /\ ~settled.threw /\ pc' = "ranked")
       => LET inp   == settled.value
              out   == settled'.value
              valid == SelectSeq(inp, IsValid)
          IN IF Len(valid) = 0 THEN out = inp
             ELSE /\ SameEntries(out, valid)
                  /\ \A i, j \in 1..Len(out) :
                       i < j => out[i].score >= out[j].score]_vars

\* a failed entry was dropped and the two valid ones, both with a history
\* bonus, changed places
C11_Witness ==
  /\ pc = "ranked"
  /\ Len(jobs[currentJob].models.items) = 3
  /\ Len(settled.value) = 2
  /\ settled.value[1].score > settled.value[2].score
  /\ settled.value[2].score > 500
  /\ settled.value[1].model # settled.value[2].model
  /\ settled.value[1].model = jobs[currentJob].models.items[2]
  /\ settled.value[2].model = jobs[currentJob].models.items[1]

\* C12: a job whose requested backends all failed is marked failed, not
\* completed, and a job is marked failed only when no backend of it succeeded
Succeeded(e) == e.error = NoError

C12_AllFailedAborts ==
  \A id \in DOMAIN jobs :
    /\ (jobs[id].status = "completed" /\ Len(jobs[id].models.items) > 0)
         => \E i \in 1..Len(jobs[id].result) : Succeeded(jobs[id].result[i])
    /\ jobs[id].status = "failed"
         => \A i \in 1..Len(jobs[id].result) : ~Succeeded(jobs[id].result[i])

\* C13: feedback updates of one user are atomic: once every updatePreferences
\* call has returned, the stored document counts every one of them:
\* totalFeedback has grown by the number of calls and each arm's pulls by the
\* number of calls that named it
Returned == {c \in Callers : calls[c].pc = "returned"}

\* the document the run started from
Base ==
  IF Len(store) > 0 /\ store[1].totalFeedback >= LongRun
    THEN LongRunPreference ELSE NewPreference

C13_NoLostUpdate ==
  (InFlight = {} /\ Len(store) > 0)
    => /\ store[1].totalFeedback
            = Base.totalFeedback + Cardinality(Returned)
       /\ \A a \in ArmSet :
            store[1].modelPreferences[a].pulls
              = Base.modelPreferences[a].pulls
                  + Cardinality({c \in Returned : calls[c].model = a})

\* C14: an updatePreferences call for a known arm adds one to that arm's
\* pulls, one to its wins iff reward > 0, one to its losses iff reward < 0,
\* and leaves the other arms' statistics as they were; and in every document,
\* stored or held by a call, pulls >= wins + losses for every arm
Documents == Range(store) \cup {calls[c].doc : c \in Callers}

\* the step of call c in which the model method runs
MethodRuns(c) == calls[c].pc # "saving" /\ calls'[c].pc = "saving"

\* the document the method runs on, and the document it leaves
Before(c) == IF calls[c].pc = "idle" THEN store[1] ELSE NewPreference
After(c) == calls'[c].doc

CountsOne(c) ==
  LET m   == calls'[c].model
      r   == calls'[c].reward
      old == Before(c).modelPreferences
      new == After(c).modelPreferences
  IN m \in ArmSet
       => /\ new[m].pulls = old[m].pulls + 1
          /\ new[m].wins = old[m].wins + (IF r > 0 THEN 1 ELSE 0)
          /\ new[m].losses = old[m].losses + (IF r < 0 THEN 1 ELSE 0)
          /\ \A a \in ArmSet \ {m} : new[a] = old[a]

C14_PullsWinsLosses ==
  /\ [][\A c \in Callers : MethodRuns(c) => CountsOne(c)]_vars
  /\ [](\A doc \in Documents : \A a \in ArmSet :
          doc.modelPreferences[a].pulls
            >= doc.modelPreferences[a].wins + doc.modelPreferences[a].losses)

\* three ratings of one arm are stored: one win, one loss, one neutral
C14_Witness ==
  /\ Len(store) > 0
  /\ store[1].modelPreferences["style-transfer"].pulls = 3
  /\ store[1].modelPreferences["style-transfer"].wins = 1
  /\ store[1].modelPreferences["style-transfer"].losses = 1

\* C15: after k >= 1 rewards applied one after the other to one arm of a new
\* user's state, the arm's pulls are k and its score is the arithmetic mean
\* of the k rewards, which lies in [-1, 1]; a 5-star rating of diffusion by a
\* new user is the reward 1.0 and leaves pulls 1 and score 1.0
RECURSIVE SumRewards(_)
SumRewards(K) ==
  IF K = {} THEN 0
  ELSE LET c == CHOOSE x \in K : TRUE
       IN calls[c].reward + SumRewards(K \ {c})

RatedBy(a) == {c \in Returned : calls[c].model = a}

C16_EpsilonNeverRises ==
  [][\A doc \in Range(store') :
       /\ doc.epsilon >= minEpsilon
       /\ doc.epsilon <= maxEpsilon
       /\ Len(store) = 0 => doc.epsilon = initialEpsilon
       /\ Len(store) > 0 => doc.epsilon <= store[1].epsilon]_vars

\* C17: a feedback submission leaves the user's totalGenerations as it was and
\* adds one to totalFeedback
FeedbackStored(c) == calls[c].pc = "saving" /\ calls'[c].pc = "returned"

C17_FeedbackKeepsGenerations ==
  [][\A c \in Callers :
       (FeedbackStored(c) /\ Len(store) > 0)
         => /\ store'[1].totalGenerations = store[1].totalGenerations
            /\ store'[1].totalFeedback = store[1].totalFeedback + 1]_vars

\* C18: in every stored state that has received feedback, epsilon is
\* max(minEpsilon, initialEpsilon * exp(-decayRate * totalGenerations)) for the
\* totalGenerations of that same state
C18_EpsilonOfStoredCount ==
  \A doc \in Range(store) :
    doc.totalFeedback >= 1
      => doc.epsilon = Max(minEpsilon, Decayed(doc.totalGenerations))

\* C19, as stated: an epsilonGreedy call that does not explore returns the
\* first arm in iteration order whose score is maximal over all arms, with
\* exploring = false; one that explores returns an arm of the arm set, with
\* exploring = true; the confidence is 1 - epsilon either way
ScoreLeq(x, y) == x.num * y.den <= y.num * x.den

\* the first of the arms with indices in I whose score is maximal among them
FirstBest(doc, I) ==
  LET score(i) == doc.modelPreferences[Arms[i]].score
  IN Arms[CHOOSE i \in I :
            /\ \A j \in I : ScoreLeq(score(j), score(i))
            /\ \A j \in I : j < i => ~ScoreLeq(score(i), score(j))]

\* a step in which epsilonGreedy returns
GreedyReturns == ret'.op = "epsilon-greedy" /\ calls' = calls

C19_BestOfAllArms ==
  [][GreedyReturns
       => /\ ret'.confidence = 100000 - store'[1].epsilon
          /\ ret'.exploring => ret'.model \in ArmSet
          /\ ~ret'.exploring
               => ret'.model = FirstBest(store'[1], 1..Len(Arms))]_vars

\* C19, amended: the arm returned without exploring is the first arm in
\* iteration order whose score is maximal among the arms with pulls > 0, and
\* diffusion when no arm has been pulled
PulledArms(doc) ==
  {i \in 1..Len(Arms) : doc.modelPreferences[Arms[i]].pulls > 0}

C19_BestOfPulledArms ==
  [][GreedyReturns
       => /\ ret'.confidence = 100000 - store'[1].epsilon
          /\ ret'.exploring => ret'.model \in ArmSet
          /\ ~ret'.exploring
               => ret'.model =
                    IF PulledArms(store'[1]) = {} THEN "diffusion"
                    ELSE FirstBest(store'[1], PulledArms(store'[1]))]_vars

\* both arms have been pulled, their scores are equal, and epsilonGreedy has
\* returned the first of them without exploring
C19_Witness ==
  /\ ret.op = "epsilon-greedy"
  /\ ~ret.exploring
  /\ ret.model = "style-transfer"
  /\ Len(store) > 0
  /\ PulledArms(store[1]) = 1..Len(Arms)
  /\ store[1].modelPreferences["style-transfer"].score
       = store[1].modelPreferences["diffusion"].score

\* C20: in a run that alternates ucb with an updatePreferences call for the
\* arm it returned, ucb returns the first arm in iteration order with pulls = 0
\* while there is one, whatever the scores of the others, so that no arm is
\* returned a second time before every arm has been returned once
Unpulled(doc) ==
  {i \in 1..Len(Arms) : doc.modelPreferences[Arms[i]].pulls = 0}

\* how often ucb has returned arm a: its feedback so far, and the return that
\* still waits for its feedback
TimesReturned(a) ==
  store[1].modelPreferences[a].pulls
    + (IF ret.op = "ucb" /\ ret.model = a THEN 1 ELSE 0)

C20_UnpulledArmsFirst ==
  Len(store) > 0
    => /\ (ret.op = "ucb" /\ Unpulled(store[1]) # {})
            => ret.model
                 = Arms[CHOOSE i \in Unpulled(store[1]) :
                          \A j \in Unpulled(store[1]) : i <= j]
       /\ \A a, b \in ArmSet :
            TimesReturned(a) >= 2 => TimesReturned(b) >= 1

\* the first arm was rated with five stars, and ucb has returned the second
C20_Witness ==
  /\ Len(store) > 0
  /\ store[1].modelPreferences["style-transfer"].pulls = 1
  /\ store[1].modelPreferences["style-transfer"].score = [num |-> 10, den |-> 1]
  /\ store[1].modelPreferences["diffusion"].pulls = 0
  /\ ret.op = "ucb"
  /\ ret.model = "diffusion"

\* C21: every reward that reaches updatePreferences from the feedback
\* endpoints lies in [-1, 1] (in 1/10: -10..10); requests answered 400 never
\* reach it
Reached == {c \in Callers : calls[c].pc \notin {"idle", "rejected"}}
C21_RewardsInRange ==
  \A c \in Reached : calls[c].reward \in -10..10

\* C22: a rating request carrying a user id, an image id and a rating in
\* 1..5, and a like request carrying a user id and an image id, are not
\* answered 400
C22_TestBodiesAccepted ==
  [][\A c \in Callers :
       /\ \A body \in RateBodies :
            (body.userId /\ body.imageId /\ body.rating = Number(5)
               /\ PostRate(c, body))
              => calls'[c].pc # "rejected"
       /\ \A body \in LikeBodies :
            (body.userId /\ body.imageId /\ PostLike(c, body))
              => calls'[c].pc # "rejected"]_vars

\* C23: the events of every job come in a fixed order: jobAdded first; then
\* either jobCancelled, or jobStarted followed by jobProgress events and then
\* at most one of jobCompleted and jobFailed; nothing follows jobCompleted,
\* jobFailed or jobCancelled, and a finished job's last event is the one of
\* its status
Closing == {"jobCompleted", "jobFailed", "jobCancelled"}
InOrder(ev) ==
  /\ Len(ev) >= 1
  /\ ev[1] = "jobAdded"
  /\ \A i \in 2..Len(ev) : ev[i] # "jobAdded"
  /\ \A i \in 1..Len(ev) : ev[i] \in Closing => i = Len(ev)
  /\ \A i \in 1..Len(ev) : ev[i] = "jobCancelled" => i = 2
  /\ \A i \in 1..Len(ev) : ev[i] = "jobStarted" => i = 2
  /\ \A i \in 1..Len(ev) : ev[i] = "jobProgress" => i >= 3
  /\ \A i \in 1..Len(ev) : ev[i] \in {"jobCompleted", "jobFailed"} => i >= 4
EventOf(st) ==
  IF st = "completed" THEN "jobCompleted"
  ELSE IF st = "failed" THEN "jobFailed" ELSE "jobCancelled"
C23_EventOrder ==
  \A id \in DOMAIN jobs :
    /\ InOrder(jobs[id].events)
    /\ jobs[id].status \in Terminal
         <=> jobs[id].events[Len(jobs[id].events)] \in Closing
    /\ jobs[id].status \in Terminal
         => jobs[id].events[Len(jobs[id].events)] = EventOf(jobs[id].status)
C23_Witness ==
  /\ \E id \in DOMAIN jobs :
       jobs[id].events = <<"jobAdded", "jobStarted", "jobProgress",
                           "jobProgress", "jobCompleted">>
  /\ \E id \in DOMAIN jobs :
       jobs[id].events = <<"jobAdded", "jobCancelled">>
  /\ \E id \in DOMAIN jobs :
       jobs[id].events = <<"jobAdded", "jobStarted", "jobProgress",
                           "jobFailed">>

\* C25: between operations every job that was added and has not been evicted
\* from the completed cache is held exactly once, in the pending list, the
\* in-flight slot or the completed cache, and its status tells which: pending
\* in the pending list, processing in flight, completed, failed or cancelled
\* in the cache
Held(id) ==
  Cardinality({i \in 1..Len(queue) : queue[i] = id})
    + (IF currentJob = id THEN 1 ELSE 0)
    + Cardinality({i \in 1..Len(completedJobs) : completedJobs[i] = id})
Evicted(id) ==
  /\ jobs[id].status \in Terminal
  /\ Held(id) = 0
  /\ Len(completedJobs) = maxCompletedJobs
  /\ \A j \in Range(completedJobs) :
       jobs[j].completedAt >= jobs[id].completedAt
C25_HeldOnce ==
  \A id \in DOMAIN jobs :
    \/ Evicted(id)
    \/ /\ Held(id) = 1
       /\ jobs[id].status = "pending" <=> id \in Range(queue)
       /\ jobs[id].status = "processing" <=> currentJob = id
       /\ jobs[id].status \in Terminal <=> id \in Range(completedJobs)
\* one job is pending, one is in flight and one, cancelled, is in the cache
C25_Witness ==
  /\ \E id \in Range(queue) : jobs[id].status = "pending"
  /\ currentJob # NoJob
  /\ jobs[currentJob].status = "processing"
  /\ \E id \in Range(completedJobs) : jobs[id].status = "cancelled"

\* C26: whenever the processing flag is false between operations, the pending
\* list is empty and no job is in flight
C26_IdleMeansEmpty ==
  ~processing => (Len(queue) = 0 /\ currentJob = NoJob /\ pc = "idle")
C26_Witness ==
  /\ ~processing
  /\ \E id \in DOMAIN jobs : jobs[id].status = "completed"
  /\ \E id \in DOMAIN jobs : jobs[id].status = "cancelled"

\* C27: an updatePreferences call naming a backend that is no arm of the
\* user's state leaves every arm's score, pulls, wins and losses as they were,
\* yet adds one to totalFeedback, recomputes epsilon, is saved and returns
\* success
UnknownArm(c) == calls'[c].model \notin ArmSet
C27_UnknownArmCounted ==
  /\ [][\A c \in Callers :
          (MethodRuns(c) /\ UnknownArm(c))
            => /\ After(c).modelPreferences = Before(c).modelPreferences
               /\ After(c).totalFeedback = Before(c).totalFeedback + 1
               /\ After(c).totalGenerations = Before(c).totalGenerations + 1
               /\ After(c).epsilon
                    = Max(minEpsilon, Decayed(Before(c).totalGenerations))]_vars
  /\ [][\A c \in Callers :
          (calls[c].pc = "saving" /\ UnknownArm(c) /\ calls'[c] # calls[c])
            => /\ store' = <<calls[c].doc>>
               /\ calls'[c].pc = "returned"
               /\ ret'.op = "update"
               /\ ret'.epsilon = calls[c].doc.epsilon]_vars
C27_Witness ==
  /\ \E c \in Returned : calls[c].model \notin ArmSet
  /\ Len(store) > 0
  /\ store[1].totalFeedback = 1
  /\ \A a \in ArmSet : store[1].modelPreferences[a].pulls = 0

\* C24: the worker never waits for a listener: with only the worker's steps
\* fair, so that a listener may stay suspended for ever, every job that was
\* added is finished eventually, and the jobs behind it are started
Unfinished(id) ==
  id \in DOMAIN jobs /\ jobs[id].status \in {"pending", "processing"}
Ended(id) == id \in DOMAIN jobs /\ jobs[id].status \in Terminal
C24_WorkerNeverWaits ==
  \A id \in NewIds : Unfinished(id) ~> Ended(id)

\* two jobs are finished while every listener called for them is still
\* suspended at its findOne
ListenersOf(id) == {t \in tasks : t.id = id /\ t.kind \in Handled}
C24_Witness ==
  \E a, b \in DOMAIN jobs :
    /\ a # b
    /\ Ended(a)
    /\ Ended(b)
    /\ Cardinality(ListenersOf(a)) >= 3
    /\ Cardinality(ListenersOf(b)) >= 3
    /\ \A t \in ListenersOf(a) \cup ListenersOf(b) : t.pc = "finding"

\* C28: selectModels returns each backend at most once, so that no job built
\* from its recommendations names a backend twice, and the list it returns
\* holds an entry for diffusion with confidence 1.0
NoRepeat(seq) == \A i, j \in 1..Len(seq) : seq[i] = seq[j] => i = j
C28_EachBackendOnce ==
  /\ ret.op = "selectModels"
       => /\ NoRepeat(ModelsOf(ret.recommendations))
          /\ \E i \in 1..Len(ret.recommendations) :
               ret.recommendations[i]
                 = [model |-> "diffusion", confidence |-> 1000]
  /\ \A id \in DOMAIN jobs : NoRepeat(jobs[id].models.items)

\* C29: every one of the overlapping first calls for a new user succeeds, and
\* one document exists for the user
C29_FirstAccessOnce ==
  /\ \A c \in Callers : calls[c].pc # "failed"
  /\ Len(store) <= 1

\* C30: once a job submitted through the router is completed or failed and
\* no callback for it is suspended any more, its Generation document has the
\* job's status
C30_MirrorConverges ==
  \A id \in DOMAIN generations :
    (/\ jobs[id].status \in {"completed", "failed"}
     /\ \A t \in tasks : t.id # id)
      => generations[id].status = jobs[id].status

====
